---------------------------- MODULE Spec2Model ----------------------------
(***************************************************************************)
(* A model of src/nn/transformer/layers.py: MLP, MultiHeadAttention,       *)
(* MSDeformableAttention and PositionEmbedding.                            *)
(*                                                                         *)
(* Numbers.  Tensor elements are exact rationals <<n, d>> (d > 0, lowest   *)
(* terms), so the model is the real-number semantics of the code; float    *)
(* rounding is not modelled.  Logits that enter a softmax are kept in      *)
(* units of ln 2 (the integer k stands for the real logit k * ln 2), which *)
(* makes exp(k * ln 2) = 2^k and the softmax an exact rational.            *)
(*                                                                         *)
(* Tensors.  A tensor is [shape |-> <<d1, ..., dk>>, data |-> the elements *)
(* in row-major order].  view / reshape / flatten / transpose / stack /    *)
(* split are modelled by the index arithmetic they perform.  A failed      *)
(* operation yields an error value [err |-> kind] which every later        *)
(* operation passes on, as a raised Python exception would.                *)
(***************************************************************************)
EXTENDS Integers, Sequences, FiniteSets, TLC

(***************************************************************************)
(* Rationals                                                               *)
(***************************************************************************)
Abs(n) == IF n < 0 THEN -n ELSE n

RECURSIVE Gcd(_, _)
Gcd(a, b) == IF b = 0 THEN a ELSE Gcd(b, a % b)

\* the rational n/d in lowest terms with a positive denominator (d # 0)
Q(n, d) ==
  LET g == Gcd(Abs(n), Abs(d))
      s == IF d < 0 THEN -1 ELSE 1
  IN  <<(s * n) \div g, (s * d) \div g>>

QI(n) == <<n, 1>>
QZero == <<0, 1>>
QOne == <<1, 1>>
\* sums over the least common denominator and products reduced crosswise, so
\* that no intermediate number is larger than it has to be
QAdd(a, b) ==
  LET g == Gcd(a[2], b[2])
  IN  Q(a[1] * (b[2] \div g) + b[1] * (a[2] \div g), (a[2] \div g) * b[2])
QNeg(a) == <<-a[1], a[2]>>
QSub(a, b) == QAdd(a, QNeg(b))
QMul(a, b) ==
  LET g1 == Gcd(Abs(a[1]), b[2])
      g2 == Gcd(Abs(b[1]), a[2])
  IN  Q((a[1] \div g1) * (b[1] \div g2), (a[2] \div g2) * (b[2] \div g1))
\* division by zero does not occur in the model: every divisor is a level
\* size >= 1, n_points >= 1, or a softmax denominator > 0
QDiv(a, b) == QMul(a, Q(b[2], b[1]))
QLt(a, b) == a[1] * b[2] < b[1] * a[2]
QLe(a, b) == a[1] * b[2] <= b[1] * a[2]
\* floor: \div rounds towards minus infinity for a positive divisor
QFloor(a) == a[1] \div a[2]

RECURSIVE Pow2(_)
Pow2(k) == IF k <= 0 THEN 1 ELSE 2 * Pow2(k - 1)

(***************************************************************************)
(* Sequences of numbers                                                    *)
(***************************************************************************)
RECURSIVE Prod(_)
Prod(s) == IF Len(s) = 0 THEN 1 ELSE Head(s) * Prod(Tail(s))

RECURSIVE SumInt(_)
SumInt(s) == IF Len(s) = 0 THEN 0 ELSE Head(s) + SumInt(Tail(s))

RECURSIVE QSum(_)
QSum(s) == IF Len(s) = 0 THEN QZero ELSE QAdd(Head(s), QSum(Tail(s)))

RECURSIVE MinOf(_)
MinOf(s) == IF Len(s) = 1 THEN s[1]
            ELSE LET m == MinOf(Tail(s)) IN IF s[1] < m THEN s[1] ELSE m

(***************************************************************************)
(* Tensors                                                                 *)
(***************************************************************************)
IsErr(t) == "err" \in DOMAIN t
Err(kind) == [err |-> kind]

\* a sequence given as a function, as the tuple of its elements (the same
\* value; TLC then computes each element once)
Eager(s) == s \o << >>

T(shape, data) == [shape |-> shape, data |-> Eager(data)]
Numel(shape) == Prod(shape)
Rank(t) == Len(t.shape)

\* the row-major strides of a shape: the product of the sizes to the right
Strides(shape) ==
  Eager([i \in 1..Len(shape) |-> Prod(SubSeq(shape, i + 1, Len(shape)))])

RECURSIVE DotFrom(_, _, _)
DotFrom(idx, st, i) ==
  IF i > Len(idx) THEN 0 ELSE idx[i] * st[i] + DotFrom(idx, st, i + 1)

\* row-major position (1-based) of the 0-based index tuple idx in a tensor
\* with strides st
Pos(idx, st) == 1 + DotFrom(idx, st, 1)

\* 0-based index tuple of the row-major position k (1-based) in a tensor of
\* the given shape and strides
Idx(k, shape, st) ==
  Eager([i \in 1..Len(shape) |-> ((k - 1) \div st[i]) % shape[i]])

Ravel(idx, shape) == Pos(idx, Strides(shape))
At(t, idx) == t.data[Ravel(idx, t.shape)]

\* a dimension argument as Python gives it (0-based, negative from the end),
\* as a 0-based dimension of a tensor of rank r
NormDim(d, r) == IF d < 0 THEN d + r ELSE d

\* the size a -1 entry of a view's shape stands for
InferDim(shape, n) ==
  LET known == Prod([i \in 1..Len(shape) |-> IF shape[i] = -1 THEN 1 ELSE shape[i]])
  IN  IF known > 0 /\ n % known = 0 THEN n \div known ELSE -1

InferShape(shape, n) ==
  Eager([i \in 1..Len(shape) |-> IF shape[i] = -1 THEN InferDim(shape, n) ELSE shape[i]])

\* Tensor.view(*shape): the same elements in the same row-major order; an
\* error when the element counts differ
View(t, shape) ==
  IF IsErr(t) THEN t
  ELSE LET s == InferShape(shape, Numel(t.shape))
       IN  IF (\E i \in 1..Len(s) : s[i] < 0) \/ Numel(s) # Numel(t.shape)
           THEN Err("RuntimeError")
           ELSE T(s, t.data)

\* Tensor.reshape(*shape): as view, for a tensor that need not be contiguous
Reshape(t, shape) == View(t, shape)

SwapAt(s, i, j) ==
  Eager([k \in 1..Len(s) |-> IF k = i THEN s[j] ELSE IF k = j THEN s[i] ELSE s[k]])

\* Tensor.transpose(d0, d1)
Transpose(t, d0, d1) ==
  IF IsErr(t) THEN t
  ELSE LET i == NormDim(d0, Rank(t)) + 1
           j == NormDim(d1, Rank(t)) + 1
           ns == SwapAt(t.shape, i, j)
           st == Strides(ns)
           \* the strides of t, in the order of the result's dimensions
           tt == SwapAt(Strides(t.shape), i, j)
       IN  T(ns, [k \in 1..Numel(ns) |-> t.data[Pos(Idx(k, ns, st), tt)]])

\* Tensor.flatten(start, end): dimensions start..end merged into one
Flatten(t, start, end) ==
  IF IsErr(t) THEN t
  ELSE LET a == NormDim(start, Rank(t)) + 1
           b == NormDim(end, Rank(t)) + 1
           ns == SubSeq(t.shape, 1, a - 1)
                   \o <<Prod(SubSeq(t.shape, a, b))>>
                   \o SubSeq(t.shape, b + 1, Rank(t))
       IN  T(ns, t.data)

\* torch.stack(ts, dim): the tensors of one shape put side by side along a
\* new dimension dim of the result
Stack(ts, dim) ==
  IF \E i \in 1..Len(ts) : IsErr(ts[i]) THEN Err("RuntimeError")
  ELSE IF \E i \in 1..Len(ts) : ts[i].shape # ts[1].shape THEN Err("RuntimeError")
  ELSE LET r == Rank(ts[1])
           p == NormDim(dim, r + 1) + 1
           ns == SubSeq(ts[1].shape, 1, p - 1) \o <<Len(ts)>>
                   \o SubSeq(ts[1].shape, p, r)
           st == Strides(ns)
           s1 == Strides(ts[1].shape)
       IN  T(ns, [k \in 1..Numel(ns) |->
                    LET idx == Idx(k, ns, st)
                    IN  ts[idx[p] + 1].data[
                          Pos(SubSeq(idx, 1, p - 1) \o SubSeq(idx, p + 1, r + 1), s1)]])

\* the start (0-based) of piece i of a split into pieces of the given sizes
SplitStart(sizes, i) == SumInt(SubSeq(sizes, 1, i - 1))

\* Tensor.split(sizes, dim=1) of a tensor [bs, n, ...]: the pieces, in order;
\* an error unless the sizes add up to n
Split1(t, sizes) ==
  IF IsErr(t) THEN <<t>>
  ELSE IF SumInt(sizes) # t.shape[2] THEN <<Err("RuntimeError")>>
  ELSE LET tt == Strides(t.shape)
       IN  Eager([i \in 1..Len(sizes) |->
             LET ns == <<t.shape[1], sizes[i]>> \o SubSeq(t.shape, 3, Rank(t))
                 st == Strides(ns)
                 start == SplitStart(sizes, i)
             IN  T(ns, [k \in 1..Numel(ns) |->
                          LET idx == Idx(k, ns, st)
                          IN  t.data[Pos(idx, tt) + start * tt[2]]])])

\* Tensor.sum(-1)
SumLast(t) ==
  IF IsErr(t) THEN t
  ELSE LET r == Rank(t)
           n == t.shape[r]
           ns == SubSeq(t.shape, 1, r - 1)
       IN  T(ns, [k \in 1..Numel(ns) |->
                    QSum([j \in 1..n |-> t.data[(k - 1) * n + j]])])

\* t[..., lo:hi] on the last dimension (0-based, hi excluded)
SliceLast(t, lo, hi) ==
  IF IsErr(t) THEN t
  ELSE LET r == Rank(t)
           n == t.shape[r]
           w == hi - lo
           ns == SubSeq(t.shape, 1, r - 1) \o <<w>>
       IN  T(ns, [k \in 1..Numel(ns) |->
                    t.data[((k - 1) \div w) * n + lo + ((k - 1) % w) + 1]])

\* t[:, :, :, level] for a tensor of rank 6: dimension 3 (0-based) indexed away
Select3(t, level) ==
  IF IsErr(t) THEN t
  ELSE LET ns == SubSeq(t.shape, 1, 3) \o SubSeq(t.shape, 5, Rank(t))
           st == Strides(ns)
           tt == Strides(t.shape)
           \* the strides of t for the dimensions that stay
           rest == SubSeq(tt, 1, 3) \o SubSeq(tt, 5, Rank(t))
       IN  T(ns, [k \in 1..Numel(ns) |->
                    t.data[Pos(Idx(k, ns, st), rest) + level * tt[4]]])

\* shapes aligned at the last dimension, the shorter one padded with 1s
PadShape(s, r) == [i \in 1..(r - Len(s)) |-> 1] \o s

Max2(a, b) == IF a > b THEN a ELSE b

Broadcastable(s1, s2) ==
  \A i \in 1..Len(s1) : s1[i] = s2[i] \/ s1[i] = 1 \/ s2[i] = 1

\* the strides by which a tensor of (padded) shape s is read along the
\* dimensions of a broadcast result: a dimension of size 1 is not advanced
BStrides(s) ==
  LET st == Strides(s)
  IN  Eager([i \in 1..Len(s) |-> IF s[i] = 1 THEN 0 ELSE st[i]])

Arith(op, x, y) ==
  CASE op = "add" -> QAdd(x, y)
    [] op = "sub" -> QSub(x, y)
    [] op = "mul" -> QMul(x, y)
    [] op = "div" -> QDiv(x, y)

\* a + b, a - b, a * b, a / b elementwise with broadcasting
Elementwise(op, a, b) ==
  IF IsErr(a) THEN a
  ELSE IF IsErr(b) THEN b
  ELSE LET r == Max2(Rank(a), Rank(b))
           sa == PadShape(a.shape, r)
           sb == PadShape(b.shape, r)
       IN  IF ~Broadcastable(sa, sb) THEN Err("RuntimeError")
           ELSE LET ns == Eager([i \in 1..r |-> Max2(sa[i], sb[i])])
                    st == Strides(ns)
                    ba == BStrides(sa)
                    bb == BStrides(sb)
                IN  T(ns, [k \in 1..Numel(ns) |->
                             LET idx == Idx(k, ns, st)
                             IN  Arith(op, a.data[Pos(idx, ba)], b.data[Pos(idx, bb)])])

\* t * c and t + c for a number c
Scale(t, c) == IF IsErr(t) THEN t ELSE T(t.shape, [k \in DOMAIN t.data |-> QMul(t.data[k], c)])
Shift(t, c) == IF IsErr(t) THEN t ELSE T(t.shape, [k \in DOMAIN t.data |-> QAdd(t.data[k], c)])


(***************************************************************************)
(* The tensor library's layers and functions the module calls             *)
(***************************************************************************)
\* nn.Linear / F.linear: y[..., o] = sum_i x[..., i] * weight[o, i] + bias[o];
\* an error when x's last dimension is not the layer's input size
Linear(x, weight, bias) ==
  IF IsErr(x) THEN x
  ELSE LET r == Rank(x)
           nin == weight.shape[2]
           nout == weight.shape[1]
       IN  IF r = 0 \/ x.shape[r] # nin THEN Err("RuntimeError")
           ELSE LET ns == SubSeq(x.shape, 1, r - 1) \o <<nout>>
                IN  T(ns, [k \in 1..Numel(ns) |->
                             LET row == (k - 1) \div nout
                                 o == (k - 1) % nout
                             IN  QAdd(QSum([i \in 1..nin |->
                                             QMul(x.data[row * nin + i],
                                                  weight.data[o * nin + i])]),
                                      bias.data[o + 1])])

\* F.relu
Relu(t) ==
  IF IsErr(t) THEN t
  ELSE T(t.shape, [k \in DOMAIN t.data |->
                     IF QLt(t.data[k], QZero) THEN QZero ELSE t.data[k]])

\* whether every element is a whole number
AllWhole(t) == \A k \in DOMAIN t.data : t.data[k][2] = 1

\* F.softmax(t, dim=-1) of logits in units of ln 2: exp(k ln 2) = 2^k, and
\* 2^(k - m) / sum_j 2^(k_j - m) for m the row's least logit (a softmax does
\* not change when one number is subtracted from a whole row)
Softmax(t) ==
  IF IsErr(t) THEN t
  ELSE IF ~AllWhole(t) THEN Err("NotRepresentable")
  ELSE LET n == t.shape[Rank(t)]
       IN  T(t.shape, [k \in DOMAIN t.data |->
                         LET base == ((k - 1) \div n) * n
                             row == [j \in 1..n |-> t.data[base + j][1]]
                             m == MinOf(row)
                         IN  Q(Pow2(t.data[k][1] - m),
                               SumInt([j \in 1..n |-> Pow2(row[j] - m)]))])

\* nn.Dropout with p = 0.0 (the constructors' default) or in eval mode: the
\* identity, and no random state is drawn or kept
Dropout(t) == t

\* torch.matmul of two rank-4 tensors [B, H, n, m] x [B, H, m, p]; the two
\* leading (batch) dimensions broadcast
Matmul(a, b) ==
  IF IsErr(a) THEN a
  ELSE IF IsErr(b) THEN b
  ELSE IF a.shape[4] # b.shape[3]
          \/ ~Broadcastable(SubSeq(a.shape, 1, 2), SubSeq(b.shape, 1, 2))
       THEN Err("RuntimeError")
  ELSE LET m == a.shape[4]
           ns == <<Max2(a.shape[1], b.shape[1]), Max2(a.shape[2], b.shape[2]),
                   a.shape[3], b.shape[4]>>
           st == Strides(ns)
           ba == BStrides(a.shape)
           bb == BStrides(b.shape)
       IN  T(ns, [k \in 1..Numel(ns) |->
                    LET idx == Idx(k, ns, st)
                        ra == idx[1] * ba[1] + idx[2] * ba[2] + idx[3] * ba[3]
                        rb == idx[1] * bb[1] + idx[2] * bb[2] + idx[4] * bb[4]
                    IN  QSum([j \in 1..m |->
                                QMul(a.data[ra + (j - 1) * ba[4] + 1],
                                     b.data[rb + (j - 1) * bb[3] + 1])])])

\* the pixel coordinate of a grid coordinate g in [-1, 1] along a side of
\* `size` pixels with align_corners=False: ((g + 1) * size - 1) / 2, so that
\* -1 and 1 are the outer edges of the first and the last pixel
Unnormalize(g, size) ==
  QDiv(QSub(QMul(QAdd(g, QOne), QI(size)), QOne), QI(2))

\* the value of pixel (y, x) with padding_mode 'border': a pixel outside the
\* image reads as the nearest pixel inside
PixelClamped(input, n, ch, y, x) ==
  LET yc == IF y < 0 THEN 0 ELSE IF y >= input.shape[3] THEN input.shape[3] - 1 ELSE y
      xc == IF x < 0 THEN 0 ELSE IF x >= input.shape[4] THEN input.shape[4] - 1 ELSE x
  IN  input.data[((n * input.shape[2] + ch) * input.shape[3] + yc) * input.shape[4] + xc + 1]

\* the value of pixel (y, x) of image n, channel ch, with padding_mode
\* 'zeros': a pixel outside the image reads as 0
PixelOrZero(input, n, ch, y, x) ==
  IF y >= 0 /\ y < input.shape[3] /\ x >= 0 /\ x < input.shape[4]
  THEN input.data[((n * input.shape[2] + ch) * input.shape[3] + y) * input.shape[4] + x + 1]
  ELSE QZero

\* mode 'bilinear': the four pixels around (iy, ix), each weighted by the
\* area of the rectangle opposite to it
Bilinear(input, n, ch, iy, ix) ==
  LET x0 == QFloor(ix)
      y0 == QFloor(iy)
      wx1 == QSub(ix, QI(x0))
      wx0 == QSub(QOne, wx1)
      wy1 == QSub(iy, QI(y0))
      wy0 == QSub(QOne, wy1)
  IN  QSum(<<QMul(PixelOrZero(input, n, ch, y0, x0), QMul(wy0, wx0)),
             QMul(PixelOrZero(input, n, ch, y0, x0 + 1), QMul(wy0, wx1)),
             QMul(PixelOrZero(input, n, ch, y0 + 1, x0), QMul(wy1, wx0)),
             QMul(PixelOrZero(input, n, ch, y0 + 1, x0 + 1), QMul(wy1, wx1))>>)

\* F.grid_sample(input [N, C, H, W], grid [N, Ho, Wo, 2], mode='bilinear',
\* padding_mode='zeros', align_corners=False) -> [N, C, Ho, Wo];
\* grid[..., 0] is x (along W), grid[..., 1] is y (along H)
GridSample(input, grid) ==
  IF IsErr(input) THEN input
  ELSE IF IsErr(grid) THEN grid
  ELSE IF Rank(input) # 4 \/ Rank(grid) # 4 THEN Err("RuntimeError")
  ELSE IF input.shape[1] # grid.shape[1] \/ grid.shape[4] # 2 THEN Err("RuntimeError")
  ELSE LET ns == <<input.shape[1], input.shape[2], grid.shape[2], grid.shape[3]>>
           st == Strides(ns)
       IN  T(ns, [k \in 1..Numel(ns) |->
                    LET idx == Idx(k, ns, st)
                        g == ((idx[1] * grid.shape[2] + idx[3]) * grid.shape[3] + idx[4]) * 2
                        gx == grid.data[g + 1]
                        gy == grid.data[g + 2]
                    IN  Bilinear(input, idx[1], idx[2],
                                 Unnormalize(gy, input.shape[3]),
                                 Unnormalize(gx, input.shape[4]))])


(***************************************************************************)
(* Bounds of the model and the values inputs and parameters are drawn from *)
(***************************************************************************)
\* the longest side, in pixels, of a feature level
MaxSide == 2
\* the most feature levels and the most sampling points per level
MaxLevels == 2
MaxPoints == 2
\* the most heads asked of a constructor
MaxHeads == 3
\* the most sub-layers of an MLP
MaxLayers == 3
\* the most rows (batch size times sequence length) of a query or an input,
\* and the longest key sequence and position table
MaxRows == 2
\* the number of parameter settings (random initialisations, trainings) and
\* of input contents drawn
NumSeeds == 2
\* the number of forward calls in flight at once
NumThreads == 2

Seeds == 0..(NumSeeds - 1)
Threads == 1..NumThreads
\* the model dimensions of an MSDeformableAttention and of a
\* MultiHeadAttention, the sizes of an MLP's layers, and the model dimensions
\* of a PositionEmbedding
DModels == {2, 8}
MHADims == {2, 3}
MLPDims == {1, 2}
PEDims == {2, 3, 4}
\* the last dimension of reference_points
RefDims == {1, 2, 3, 4, 5}

\* a whole number in -1..1 for position k of the tensor drawn with `seed`
Pattern(seed, k) == ((k * (1 + (seed % 2)) + seed) % 3) - 1

\* a tensor of whole numbers in -1..1 that differ from position to position
IntTensor(seed, shape) ==
  T(shape, [k \in 1..Numel(shape) |-> QI(Pattern(seed, k))])

\* a tensor whose elements are the distinct whole numbers base+1, base+2, ...
Arange(base, shape) ==
  T(shape, [k \in 1..Numel(shape) |-> QI(base + k)])

\* a tensor of halves in -1/2..1/2: within the bound of Xavier-uniform and
\* of nn.Linear's default initialisation for the sizes modelled
HalfTensor(seed, shape) ==
  T(shape, [k \in 1..Numel(shape) |-> Q(Pattern(seed, k), 2)])

Zeros(shape) == T(shape, [k \in 1..Numel(shape) |-> QZero])

NoTensor == [none |-> TRUE]
NoModule == [kind |-> "none"]

(***************************************************************************)
(* MLP                                                                     *)
(***************************************************************************)
\* zip([input_dim] + h, h + [output_dim]) with h = [hidden_dim] * (num_layers - 1)
MLP_layer_dims(input_dim, hidden_dim, output_dim, num_layers) ==
  LET h == [i \in 1..(num_layers - 1) |-> hidden_dim]
      ns == <<input_dim>> \o h
      ks == h \o <<output_dim>>
  IN  [i \in 1..Len(ks) |-> <<ns[i], ks[i]>>]

\* MLP.__init__: one nn.Linear(n, k) per pair, each with its own random
\* initial weight and bias
MLP_init(input_dim, hidden_dim, output_dim, num_layers, seed) ==
  LET dims == MLP_layer_dims(input_dim, hidden_dim, output_dim, num_layers)
  IN  [kind |-> "MLP",
       num_layers |-> num_layers,
       layers |-> [i \in 1..Len(dims) |->
                     [weight |-> HalfTensor(seed + i, <<dims[i][2], dims[i][1]>>),
                      bias |-> HalfTensor(seed + i + 1, <<dims[i][2]>>)]]]

\* the loop's turn with F.relu after every sub-layer, the last one too
MLP_layer_relu_always(m, i, x) ==
  LET y == Linear(x, m.layers[i + 1].weight, m.layers[i + 1].bias)
  IN  IF i < m.num_layers THEN Relu(y) ELSE y

\* one turn of MLP.forward's loop, for the 0-based index i
MLP_layer(m, i, x) ==
  LET y == Linear(x, m.layers[i + 1].weight, m.layers[i + 1].bias)
  IN  IF i < m.num_layers - 1 THEN Relu(y) ELSE y

(***************************************************************************)
(* MSDeformableAttention: construction                                     *)
(***************************************************************************)
\* (cos t, sin t) / max(|cos t|, |sin t|) for t = k * 45 degrees, the angles
\* 2 pi h / n_heads of 1, 2, 4 or 8 heads; the floats' rounding of cos and sin
\* (about 1e-7 where the exact value is 0) is left out
UnitDirection(k) ==
  CASE k % 8 = 0 -> <<1, 0>>
    [] k % 8 = 1 -> <<1, 1>>
    [] k % 8 = 2 -> <<0, 1>>
    [] k % 8 = 3 -> <<-1, 1>>
    [] k % 8 = 4 -> <<-1, 0>>
    [] k % 8 = 5 -> <<-1, -1>>
    [] k % 8 = 6 -> <<0, -1>>
    [] k % 8 = 7 -> <<1, -1>>

\* grid_init.view(-1): for head h, level l, point i the direction of head h
\* times (i + 1), laid out as [n_heads, n_levels, n_points, 2]
MSDA_grid_init(n_heads, n_levels, n_points) ==
  LET shape == <<n_heads, n_levels, n_points, 2>>
      st == Strides(shape)
  IN  T(<<Numel(shape)>>,
        [k \in 1..Numel(shape) |->
           LET idx == Idx(k, shape, st)
               dir == UnitDirection(idx[1] * (8 \div n_heads))
           IN  QI(dir[idx[4] + 1] * (idx[3] + 1))])

\* MSDeformableAttention._reset_parameters
MSDA_reset_parameters(d_model, n_heads, n_levels, n_points, seed) ==
  [sampling_offsets |->
     [weight |-> Zeros(<<n_heads * n_levels * n_points * 2, d_model>>),
      bias |-> MSDA_grid_init(n_heads, n_levels, n_points)],
   attention_weights |->
     [weight |-> Zeros(<<n_heads * n_levels * n_points, d_model>>),
      bias |-> Zeros(<<n_heads * n_levels * n_points>>)],
   value_proj |->
     [weight |-> HalfTensor(seed, <<d_model, d_model>>),
      bias |-> Zeros(<<d_model>>)],
   output_proj |->
     [weight |-> HalfTensor(seed + 1, <<d_model, d_model>>),
      bias |-> Zeros(<<d_model>>)]]

\* MSDeformableAttention.__init__ with dropout = 0.0 and ratio = 1.0 (the
\* defaults): the instance, or the error raised
MSDA_init(d_model, n_heads, n_levels, n_points, seed) ==
  IF d_model % n_heads # 0 THEN Err("ValueError")
  ELSE [kind |-> "MSDA",
        d_model |-> d_model,
        n_heads |-> n_heads,
        n_levels |-> n_levels,
        n_points |-> n_points,
        head_dim |-> d_model \div n_heads,
        params |-> MSDA_reset_parameters(d_model, n_heads, n_levels, n_points, seed)]

\* the parameters after training: any values; here whole numbers drawn with
\* `seed` (attention_weights in units of ln 2), and with an even seed
\* sampling offsets that are all zero
MSDA_trained(m, seed) ==
  LET no == m.n_heads * m.n_levels * m.n_points
  IN  [sampling_offsets |->
         IF seed % 2 = 0
         THEN [weight |-> Zeros(<<no * 2, m.d_model>>), bias |-> Zeros(<<no * 2>>)]
         ELSE [weight |-> IntTensor(seed, <<no * 2, m.d_model>>),
               bias |-> IntTensor(seed + 1, <<no * 2>>)],
       attention_weights |->
         [weight |-> IntTensor(seed + 1, <<no, m.d_model>>),
          bias |-> IntTensor(seed, <<no>>)],
       value_proj |->
         [weight |-> IntTensor(seed + 2, <<m.d_model, m.d_model>>),
          bias |-> IntTensor(seed, <<m.d_model>>)],
       output_proj |->
         [weight |-> IntTensor(seed, <<m.d_model, m.d_model>>),
          bias |-> IntTensor(seed + 2, <<m.d_model>>)]]


(***************************************************************************)
(* MSDeformableAttention: forward                                          *)
(*                                                                         *)
(* The arguments of a call are a record `a`:                               *)
(*   query [bs, len_q, d_model], reference_points [bs, len_q, n_levels, R],*)
(*   value [bs, len_v, d_model], value_spatial_shapes (a sequence of       *)
(*   <<H, W>>), value_level_start_index (a sequence), value_mask (NoTensor *)
(*   for None, or [bs, len_v]).                                            *)
(***************************************************************************)
\* the value viewed per head without value_proj applied
MSDA_value_raw(m, a) ==
  LET bs == a.query.shape[1]
      len_v == a.value.shape[2]
      v1 == IF a.value_mask = NoTensor THEN a.value
            ELSE Elementwise("mul", a.value,
                             View(a.value_mask, a.value_mask.shape \o <<1>>))
  IN  View(v1, <<bs, len_v, m.n_heads, -1>>)

\* value = self.value_proj(value), masked, viewed per head
MSDA_value(m, a) ==
  LET bs == a.query.shape[1]
      len_v == a.value.shape[2]
      v0 == Linear(a.value, m.params.value_proj.weight, m.params.value_proj.bias)
      v1 == IF a.value_mask = NoTensor THEN v0
            ELSE Elementwise("mul", v0,
                             View(a.value_mask, a.value_mask.shape \o <<1>>))
  IN  View(v1, <<bs, len_v, m.n_heads, -1>>)

\* self.sampling_offsets(query).view(bs, len_q, n_heads, n_levels, n_points, 2)
MSDA_sampling_offsets(m, a) ==
  View(Linear(a.query, m.params.sampling_offsets.weight,
              m.params.sampling_offsets.bias),
       <<a.query.shape[1], a.query.shape[2], m.n_heads, m.n_levels, m.n_points, 2>>)

\* the attention weights: a softmax over the n_levels * n_points logits of a
\* head, viewed as [bs, len_q, n_heads, n_levels, n_points]
MSDA_attention_weights(m, a) ==
  LET bs == a.query.shape[1]
      len_q == a.query.shape[2]
      logits == View(Linear(a.query, m.params.attention_weights.weight,
                            m.params.attention_weights.bias),
                     <<bs, len_q, m.n_heads, m.n_levels * m.n_points>>)
  IN  View(Softmax(logits), <<bs, len_q, m.n_heads, m.n_levels, m.n_points>>)

\* value_spatial_shapes.view(1, 1, 1, n_levels, 1, 2) without the flip: (H, W)
\* per level
OffsetNormalizerHW(shapes, n_levels) ==
  View(T(<<Len(shapes), 2>>,
         [k \in 1..(2 * Len(shapes)) |->
            LET l == (k - 1) \div 2
            IN  IF (k - 1) % 2 = 0 THEN QI(shapes[l + 1][1]) ELSE QI(shapes[l + 1][2])]),
       <<1, 1, 1, n_levels, 1, 2>>)

\* value_spatial_shapes.flip([1]).view(1, 1, 1, n_levels, 1, 2): (W, H) per level
OffsetNormalizer(shapes, n_levels) ==
  View(T(<<Len(shapes), 2>>,
         [k \in 1..(2 * Len(shapes)) |->
            LET l == (k - 1) \div 2
            IN  IF (k - 1) % 2 = 0 THEN QI(shapes[l + 1][2]) ELSE QI(shapes[l + 1][1])]),
       <<1, 1, 1, n_levels, 1, 2>>)

\* the sampling locations with no `else` branch: reference points that are
\* neither (x, y) nor (x, y, w, h) leave the offsets as the locations
MSDA_sampling_locations_any(m, a, sampling_offsets) ==
  LET bs == a.query.shape[1]
      len_q == a.query.shape[2]
      ref == a.reference_points
      R == ref.shape[Rank(ref)]
  IN  IF R = 2
      THEN Elementwise("add",
             View(ref, <<bs, len_q, 1, m.n_levels, 1, 2>>),
             Elementwise("div", sampling_offsets,
                         OffsetNormalizer(a.value_spatial_shapes, m.n_levels)))
      ELSE IF R = 4
      THEN LET xy == View(SliceLast(ref, 0, 2),
                          <<ref.shape[1], ref.shape[2], 1, ref.shape[3], 1, 2>>)
               wh == View(SliceLast(ref, 2, 4),
                          <<ref.shape[1], ref.shape[2], 1, ref.shape[3], 1, 2>>)
           IN  Elementwise("add", xy,
                 Scale(Elementwise("mul",
                         Scale(sampling_offsets, Q(1, m.n_points)), wh),
                       Q(1, 2)))
      ELSE sampling_offsets

\* the sampling locations [bs, len_q, n_heads, n_levels, n_points, 2], or the
\* ValueError for reference points that are neither (x, y) nor (x, y, w, h)
MSDA_sampling_locations(m, a, sampling_offsets) ==
  LET bs == a.query.shape[1]
      len_q == a.query.shape[2]
      ref == a.reference_points
      R == ref.shape[Rank(ref)]
  IN  IF R = 2
      THEN Elementwise("add",
             View(ref, <<bs, len_q, 1, m.n_levels, 1, 2>>),
             Elementwise("div", sampling_offsets,
                         OffsetNormalizer(a.value_spatial_shapes, m.n_levels)))
      ELSE IF R = 4
      THEN LET xy == View(SliceLast(ref, 0, 2),
                          <<ref.shape[1], ref.shape[2], 1, ref.shape[3], 1, 2>>)
               wh == View(SliceLast(ref, 2, 4),
                          <<ref.shape[1], ref.shape[2], 1, ref.shape[3], 1, 2>>)
           IN  Elementwise("add", xy,
                 Scale(Elementwise("mul",
                         Scale(sampling_offsets, Q(1, m.n_points)), wh),
                       Q(1, 2)))
      ELSE Err("ValueError")

\* [H * W for H, W in value_spatial_shapes]
LevelSizes(shapes) == [l \in 1..Len(shapes) |-> shapes[l][1] * shapes[l][2]]

\* the levels' tokens taken at value_level_start_index: level i is
\* value[:, start_i : start_i + H_i * W_i], an error when that runs past the end
ValueListByIndex(value, value_spatial_shapes, value_level_start_index) ==
  IF IsErr(value) THEN <<value>>
  ELSE LET sizes == LevelSizes(value_spatial_shapes)
           tt == Strides(value.shape)
       IN  Eager([i \in 1..Len(sizes) |->
             IF value_level_start_index[i] + sizes[i] > value.shape[2]
             THEN Err("RuntimeError")
             ELSE LET ns == <<value.shape[1], sizes[i]>> \o SubSeq(value.shape, 3, Rank(value))
                      st == Strides(ns)
                  IN  T(ns, [k \in 1..Numel(ns) |->
                               value.data[Pos(Idx(k, ns, st), tt)
                                            + value_level_start_index[i] * tt[2]]])])

\* value.split([H * W ...], dim=1): value_level_start_index is not read
ValueList(value, value_spatial_shapes, value_level_start_index) ==
  Split1(value, LevelSizes(value_spatial_shapes))

\* the loop's body for one level: the [bs * n_heads, c, len_q, n_points]
\* tensor bilinearly sampled from the level's [bs * n_heads, c, H, W] grid
SamplingValue(value_list, value_spatial_shapes, sampling_grids, level) ==
  LET vl == value_list[level + 1]
      H == value_spatial_shapes[level + 1][1]
      W == value_spatial_shapes[level + 1][2]
  IN  IF IsErr(vl) THEN vl
      ELSE LET bs == vl.shape[1]
               n_heads == vl.shape[3]
               c == vl.shape[4]
               value_l == Reshape(Transpose(Flatten(vl, 2, -1), 1, 2),
                                  <<bs * n_heads, c, H, W>>)
               sampling_grid_l == Flatten(Transpose(Select3(sampling_grids, level), 1, 2),
                                          0, 1)
           IN  GridSample(value_l, sampling_grid_l)

\* the dimension sampling_value_list is stacked along
StackDim == -1

\* MSDeformableAttention._deformable_attention_core_func
deformable_attention_core_func(value, value_spatial_shapes, value_level_start_index, sampling_locations, attention_weights) ==
  IF IsErr(value) THEN value
  ELSE IF IsErr(sampling_locations) THEN sampling_locations
  ELSE IF IsErr(attention_weights) THEN attention_weights
  ELSE
  LET bs == value.shape[1]
      n_heads == value.shape[3]
      c == value.shape[4]
      len_q == sampling_locations.shape[2]
      n_levels == sampling_locations.shape[4]
      n_points == sampling_locations.shape[5]
      value_list == ValueList(value, value_spatial_shapes, value_level_start_index)
      sampling_grids == Shift(Scale(sampling_locations, QI(2)), QI(-1))
      sampling_value_list ==
        [i \in 1..Len(value_spatial_shapes) |->
           SamplingValue(value_list, value_spatial_shapes, sampling_grids, i - 1)]
      aw == Reshape(Transpose(attention_weights, 1, 2),
                    <<bs * n_heads, 1, len_q, n_levels * n_points>>)
      output == Elementwise("mul",
                  Flatten(Stack(sampling_value_list, StackDim), -2, -1), aw)
  IN  IF IsErr(value_list[1]) THEN value_list[1]
      ELSE Transpose(View(SumLast(output), <<bs, n_heads * c, len_q>>), 1, 2)

\* output = self.output_proj(output)
MSDA_output(m, output) ==
  Linear(output, m.params.output_proj.weight, m.params.output_proj.bias)

(***************************************************************************)
(* MultiHeadAttention                                                      *)
(*                                                                         *)
(* Units: q_proj's weight and bias are kept in units of sqrt(head_dim) *   *)
(* ln 2, so that the scores, after the division by sqrt(head_dim), are in  *)
(* units of ln 2 like every softmax input of the model; attn_mask is in    *)
(* units of ln 2 too.                                                      *)
(***************************************************************************)
\* the constructor without its assert
MHA_init_unchecked(d_model, nhead, seed) ==
  LET head_dim == d_model \div nhead
  IN  [kind |-> "MHA",
       d_model |-> d_model,
       nhead |-> nhead,
       head_dim |-> head_dim,
       params |->
         [q_proj |-> [weight |-> IntTensor(seed, <<d_model, d_model>>),
                      bias |-> Zeros(<<d_model>>)],
          k_proj |-> [weight |-> IntTensor(seed + 1, <<d_model, d_model>>),
                      bias |-> Zeros(<<d_model>>)],
          v_proj |-> [weight |-> HalfTensor(seed + 2, <<d_model, d_model>>),
                      bias |-> Zeros(<<d_model>>)],
          out_proj |-> [weight |-> HalfTensor(seed + 3, <<d_model, d_model>>),
                        bias |-> Zeros(<<d_model>>)]]]

\* MultiHeadAttention.__init__ and _reset_parameters (dropout = 0.0): the
\* instance, or the error of the failed assert; the random weights are drawn
\* with `seed`, the biases are zero
MHA_init(d_model, nhead, seed) ==
  LET head_dim == d_model \div nhead
  IN  IF head_dim * nhead # d_model THEN Err("AssertionError")
      ELSE [kind |-> "MHA",
            d_model |-> d_model,
            nhead |-> nhead,
            head_dim |-> head_dim,
            params |->
              [q_proj |-> [weight |-> IntTensor(seed, <<d_model, d_model>>),
                           bias |-> Zeros(<<d_model>>)],
               k_proj |-> [weight |-> IntTensor(seed + 1, <<d_model, d_model>>),
                           bias |-> Zeros(<<d_model>>)],
               v_proj |-> [weight |-> HalfTensor(seed + 2, <<d_model, d_model>>),
                           bias |-> Zeros(<<d_model>>)],
               out_proj |-> [weight |-> HalfTensor(seed + 3, <<d_model, d_model>>),
                             bias |-> Zeros(<<d_model>>)]]]

\* self.X_proj(x).view(batch_size, seq_len, self.nhead, self.head_dim).transpose(1, 2)
\* with batch_size and seq_len those of the QUERY, whichever x is
MHA_project(m, proj, x, batch_size, seq_len) ==
  Transpose(View(Linear(x, proj.weight, proj.bias),
                 <<batch_size, seq_len, m.nhead, m.head_dim>>), 1, 2)

\* torch.matmul(q, k.transpose(-2, -1)) / math.sqrt(self.head_dim), plus the
\* mask when one is given; the division turns q's unit into ln 2
MHA_scores(m, q, k, attn_mask) ==
  LET scores == Matmul(q, Transpose(k, -2, -1))
  IN  IF attn_mask = NoTensor THEN scores
      ELSE Elementwise("add", scores, attn_mask)

\* attn_output.transpose(1, 2).contiguous().view(batch_size, seq_len, d_model)
MHA_concat(m, attn_output, batch_size, seq_len) ==
  View(Transpose(attn_output, 1, 2), <<batch_size, seq_len, m.d_model>>)

(***************************************************************************)
(* PositionEmbedding                                                       *)
(*                                                                         *)
(* The table's entries are sines and cosines, kept as terms: entry (pos,   *)
(* j) is [fn, pos, i] for fn(pos * exp(2 i * (-ln 10000 / d_model))), with *)
(* fn = "sin" for the even channel j = 2 i and "cos" for the odd channel   *)
(* j = 2 i + 1.  An output element is the formal sum [x, pe] of the input  *)
(* element and the table's entry.                                          *)
(***************************************************************************)
PE_entry(pos, j) ==
  [fn |-> IF j % 2 = 0 THEN "sin" ELSE "cos", pos |-> pos, i |-> j \div 2]

\* PositionEmbedding.__init__: the buffer pe of shape [1, max_len, d_model];
\* pe[:, 1::2] has d_model \div 2 columns and position * div_term has
\* (d_model + 1) \div 2, so with an odd d_model of 3 or more the assignment
\* fails (with d_model = 1 the one column broadcasts to none)
PE_init(d_model, max_len) ==
  IF d_model % 2 = 1 /\ d_model > 1 THEN Err("RuntimeError")
  ELSE [kind |-> "PE",
        d_model |-> d_model,
        max_len |-> max_len,
        pe |-> T(<<1, max_len, d_model>>,
                 [k \in 1..(max_len * d_model) |->
                    PE_entry((k - 1) \div d_model, (k - 1) % d_model)])]

\* x + self.pe[:, :x.size(1)]: the slice keeps at most max_len rows, and the
\* sum broadcasts it over the batch
PE_forward(m, x) ==
  LET rows == IF x.shape[2] < m.max_len THEN x.shape[2] ELSE m.max_len
      sp == <<1, rows, m.d_model>>
  IN  IF ~Broadcastable(x.shape, sp) THEN Err("RuntimeError")
      ELSE LET ns == Eager([i \in 1..3 |-> Max2(x.shape[i], sp[i])])
               st == Strides(ns)
               bx == BStrides(x.shape)
               \* the table's own strides, for the rows the slice keeps
               pst == Strides(m.pe.shape)
               bp == Eager([i \in 1..3 |-> IF sp[i] = 1 THEN 0 ELSE pst[i]])
           IN  T(ns, [k \in 1..Numel(ns) |->
                        LET idx == Idx(k, ns, st)
                        IN  [x |-> x.data[Pos(idx, bx)],
                             pe |-> m.pe.data[Pos(idx, bp)]]])


(***************************************************************************)
(* Forward calls, step by step                                             *)
(*                                                                         *)
(* A call in progress is a record: kind (the class), args, self0 (the      *)
(* instance as it was when the call began, kept for the properties), pc    *)
(* (the step to run next, or "returned" / "raised"), loc (the local        *)
(* variables assigned so far), out (the tensor returned) and exc (the      *)
(* error raised).                                                          *)
(***************************************************************************)
Idle == [pc |-> "idle"]

Finished(c) == c.pc \in {"returned", "raised"}
InFlight(c) == c.pc \notin {"idle", "returned", "raised"}

\* the call as it stands on entry to forward
Begin(m, kind, args, pc0, loc0) ==
  [kind |-> kind, args |-> args, self0 |-> m, pc |-> pc0, loc |-> loc0,
   out |-> NoTensor, exc |-> "none"]

\* the call after a step that assigned the locals `new`: it goes on to step
\* `pc`, unless one of them is an error, which is raised
Assign(c, new, pc) ==
  IF \E f \in DOMAIN new : IsErr(new[f])
  THEN LET f == CHOOSE g \in DOMAIN new : IsErr(new[g])
       IN  [c EXCEPT !.pc = "raised", !.exc = new[f].err]
  ELSE [c EXCEPT !.pc = pc, !.loc = new @@ c.loc]

\* the call after `return out`, or after the error that out is
Return(c, out) ==
  IF IsErr(out) THEN [c EXCEPT !.pc = "raised", !.exc = out.err]
  ELSE [c EXCEPT !.pc = "returned", !.out = out]

\* MLP.forward: one sub-layer per step
MLP_step(m, c) ==
  IF c.loc.i < Len(m.layers)
  THEN LET x == MLP_layer(m, c.loc.i, c.loc.x)
       IN  IF IsErr(x) THEN Return(c, x)
           ELSE [c EXCEPT !.loc = [i |-> c.loc.i + 1, x |-> x]]
  ELSE Return(c, c.loc.x)

\* MultiHeadAttention.forward
MHA_step(m, c) ==
  LET batch_size == c.args.query.shape[1]
      seq_len == c.args.query.shape[2]
  IN  CASE c.pc = "proj" ->
             Assign(c, [q |-> MHA_project(m, m.params.q_proj, c.args.query, batch_size, seq_len),
                        k |-> MHA_project(m, m.params.k_proj, c.args.key, batch_size, seq_len),
                        v |-> MHA_project(m, m.params.v_proj, c.args.value, batch_size, seq_len)],
                    "scores")
        [] c.pc = "scores" ->
             Assign(c, [scores |-> MHA_scores(m, c.loc.q, c.loc.k, c.args.attn_mask)],
                    "softmax")
        [] c.pc = "softmax" ->
             Assign(c, [attn_weights |-> Dropout(Softmax(c.loc.scores))], "apply")
        [] c.pc = "apply" ->
             Assign(c, [attn_output |->
                          MHA_concat(m, Matmul(c.loc.attn_weights, c.loc.v),
                                     batch_size, seq_len)],
                    "out_proj")
        [] c.pc = "out_proj" ->
             Return(c, Linear(c.loc.attn_output, m.params.out_proj.weight,
                              m.params.out_proj.bias))

\* MSDeformableAttention.forward; the core function is called in the `try`
\* when torchvision imports and in the `except ImportError` when it does not,
\* with the same arguments
MSDA_step(m, c) ==
  CASE c.pc = "value" ->
         Assign(c, [value |-> MSDA_value(m, c.args)], "weights")
    [] c.pc = "weights" ->
         Assign(c, [sampling_offsets |-> MSDA_sampling_offsets(m, c.args),
                    attention_weights |-> MSDA_attention_weights(m, c.args)],
                "locations")
    [] c.pc = "locations" ->
         Assign(c, [sampling_locations |->
                      MSDA_sampling_locations(m, c.args, c.loc.sampling_offsets)],
                "core")
    [] c.pc = "core" ->
         Assign(c, [output |-> deformable_attention_core_func(
                                 c.loc.value, c.args.value_spatial_shapes,
                                 c.args.value_level_start_index,
                                 c.loc.sampling_locations, c.loc.attention_weights)],
                "output_proj")
    [] c.pc = "output_proj" ->
         Return(c, MSDA_output(m, c.loc.output))

\* PositionEmbedding.forward
PE_step(m, c) == Return(c, PE_forward(m, c.args.x))

\* one step of a call on the instance m
Step(m, c) ==
  CASE c.kind = "MLP" -> MLP_step(m, c)
    [] c.kind = "MHA" -> MHA_step(m, c)
    [] c.kind = "MSDA" -> MSDA_step(m, c)
    [] c.kind = "PE" -> PE_step(m, c)

\* a call run from where it stands to its end, with nothing in between
RECURSIVE Run(_, _)
Run(m, c) == IF Finished(c) THEN c ELSE Run(m, Step(m, c))

\* the calls as they stand on entry
MLP_begin(m, x) == Begin(m, "MLP", [x |-> x], "layer", [i |-> 0, x |-> x])
MHA_begin(m, a) == Begin(m, "MHA", a, "proj", [entered |-> NoTensor])
MSDA_begin(m, a) == Begin(m, "MSDA", a, "value", [entered |-> NoTensor])
PE_begin(m, x) == Begin(m, "PE", [x |-> x], "add", [entered |-> NoTensor])


(***************************************************************************)
(* The arguments calls are made with                                       *)
(***************************************************************************)
\* the coordinates reference points are drawn from: inside the image, on its
\* border and outside it
RefCoords ==
  <<Q(1, 2), Q(1, 4), Q(5, 8), QI(1), QI(0), Q(-1, 4), Q(3, 2)>>

RefTensor(seed, shape) ==
  T(shape, [k \in 1..Numel(shape) |->
              RefCoords[(((k - 1) * (seed + 1) + seed) % Len(RefCoords)) + 1]])

\* a value sequence whose tokens all hold the same vector (1, 2, ..., d_model)
ConstValue(shape) ==
  T(shape, [k \in 1..Numel(shape) |-> QI(((k - 1) % shape[3]) + 1)])

\* a mask over the value tokens: 1 keeps a token, 0 zeroes it
MaskTensor(shape) ==
  T(shape, [k \in 1..Numel(shape) |-> QI(k % 2)])

\* the shapes <<H, W>> of a level: <<1, 1>>, <<1, 2>>, ..., <<MaxSide, MaxSide>>
LevelShapes ==
  [k \in 1..(MaxSide * MaxSide) |-> <<((k - 1) \div MaxSide) + 1, ((k - 1) % MaxSide) + 1>>]

\* the list of n level shapes that begins with the k-th shape and goes on
\* with the shapes after it
ShapesFrom(k, n) ==
  [l \in 1..n |-> LevelShapes[((k + l - 2) % Len(LevelShapes)) + 1]]

\* the lists of n level shapes calls are made with
ShapeLists(n) == {ShapesFrom(k, n) : k \in 1..Len(LevelShapes)}

\* level_start_index[i] == sum(Hj * Wj for j < i), moved by `shift`
LevelStartIndex(shapes, shift) ==
  [i \in 1..Len(shapes) |-> SplitStart(LevelSizes(shapes), i) + shift]

\* <<batch size, sequence length>> of a query
RowShapes == {r \in (1..MaxRows) \X (1..MaxRows) : r[1] * r[2] <= MaxRows}

\* the wide model (d_model = 8) is built with one level and one point and
\* called with one query; the narrow one with every combination
MSDAConfigs ==
  {cf \in DModels \X (1..MaxHeads) \X (1..MaxLevels) \X (1..MaxPoints) :
     cf[1] > 2 => (cf[3] = 1 /\ cf[4] = 1)}

MSDARowShapes(m) ==
  IF m.d_model > 2 THEN {<<1, 1>>} ELSE {<<1, 1>>, <<1, MaxRows>>, <<MaxRows, 1>>}

\* how a call's arguments vary from reference points (x, y), a
\* value_level_start_index of the levels' sums and no mask, one at a time:
\* <<the last dimension of reference_points, the shift of
\* value_level_start_index, whether a value_mask is given>>
MSDAVariants ==
  {<<4, 0, FALSE>>, <<2, 1, FALSE>>, <<2, 0, TRUE>>}
    \cup {<<R, 0, FALSE>> : R \in RefDims \ {2, 4}}

MSDA_args(m, bs, len_q, shapes, R, seed, shift, masked) ==
  LET len_v == SumInt(LevelSizes(shapes))
  IN  [query |-> IntTensor(seed, <<bs, len_q, m.d_model>>),
       reference_points |-> RefTensor(seed, <<bs, len_q, m.n_levels, R>>),
       value |-> IF seed = 0 THEN ConstValue(<<bs, len_v, m.d_model>>)
                 ELSE Arange(seed, <<bs, len_v, m.d_model>>),
       value_spatial_shapes |-> shapes,
       value_level_start_index |-> LevelStartIndex(shapes, shift),
       value_mask |-> IF masked THEN MaskTensor(<<bs, len_v>>) ELSE NoTensor]

\* the arguments of the calls on m: every query size and list of level
\* shapes, and every variant with one query and the first list
MSDAArgs(m) ==
  {MSDA_args(m, r[1], r[2], sh, 2, seed, 0, FALSE) :
     r \in MSDARowShapes(m), sh \in ShapeLists(m.n_levels), seed \in Seeds}
    \cup {MSDA_args(m, 1, 1, ShapesFrom(1, m.n_levels), v[1], seed, v[2], v[3]) :
            v \in MSDAVariants, seed \in Seeds}

MHA_args(m, bs, s_q, s_k, seed, masked) ==
  [query |-> IntTensor(seed, <<bs, s_q, m.d_model>>),
   key |-> IntTensor(seed + 1, <<bs, s_k, m.d_model>>),
   value |-> Arange(seed, <<bs, s_k, m.d_model>>),
   attn_mask |-> IF masked THEN IntTensor(seed, <<s_q, s_k>>) ELSE NoTensor]

MHAArgs(m) ==
  {MHA_args(m, r[1], r[2], s_k, seed, masked) :
     r \in RowShapes, s_k \in 1..MaxRows, seed \in Seeds, masked \in BOOLEAN}

MLPInputs(m) ==
  {IntTensor(seed, <<rows, m.layers[1].weight.shape[2]>>) :
     rows \in 1..MaxRows, seed \in Seeds}
    \cup {Arange(-2, <<rows, m.layers[1].weight.shape[2]>>) : rows \in 1..MaxRows}

PEInputs(m) ==
  {IntTensor(seed, <<r[1], s, m.d_model>>) :
     r \in RowShapes, s \in 1..(MaxRows + 1), seed \in Seeds}

(***************************************************************************)
(* The state and the operations                                            *)
(***************************************************************************)
VARIABLES
  module,  \* the instance the last constructor call yielded, or NoModule
  ctor,    \* the last constructor call: class, arguments and outcome
  calls    \* the forward call of each thread

vars == <<module, ctor, calls>>

AllIdle == [t \in Threads |-> Idle]

Init ==
  /\ module = NoModule
  /\ ctor = [cls |-> "none", args |-> << >>, outcome |-> "none"]
  /\ calls = AllIdle

\* a constructor call ending with `made`: the instance, or the error raised,
\* which leaves the caller without an instance
Construct(cls, args, made) ==
  /\ ctor.cls = "none"
  /\ module' = IF IsErr(made) THEN NoModule ELSE made
  /\ ctor' = [cls |-> cls, args |-> args,
              outcome |-> IF IsErr(made) THEN made.err ELSE "ok"]
  /\ UNCHANGED calls

NewMLP(input_dim, hidden_dim, output_dim, num_layers, seed) ==
  Construct("MLP", <<input_dim, hidden_dim, output_dim, num_layers>>,
            MLP_init(input_dim, hidden_dim, output_dim, num_layers, seed))

NewMHA(d_model, nhead, seed) ==
  Construct("MHA", <<d_model, nhead>>, MHA_init(d_model, nhead, seed))

NewMSDA(d_model, n_heads, n_levels, n_points, seed) ==
  Construct("MSDA", <<d_model, n_heads, n_levels, n_points>>,
            MSDA_init(d_model, n_heads, n_levels, n_points, seed))

NewPE(d_model, max_len) ==
  Construct("PE", <<d_model, max_len>>, PE_init(d_model, max_len))

\* training, between forward calls, leaves the instance with other parameters
Train(seed) ==
  /\ module.kind = "MSDA"
  /\ calls = AllIdle
  /\ module' = [module EXCEPT !.params = MSDA_trained(module, seed)]
  /\ UNCHANGED <<ctor, calls>>

\* a whole forward call of thread t, from entry to return or raise
Forward(t, c) ==
  /\ calls[t] = Idle
  /\ calls' = [calls EXCEPT ![t] = Run(module, c)]
  /\ UNCHANGED <<module, ctor>>

\* the caller of thread t takes the call's result (the tensor or the error)
Collect(t) ==
  /\ Finished(calls[t])
  /\ calls' = [calls EXCEPT ![t] = Idle]
  /\ UNCHANGED <<module, ctor>>

MLP_call(t, x) == module.kind = "MLP" /\ Forward(t, MLP_begin(module, x))
MHA_call(t, a) == module.kind = "MHA" /\ Forward(t, MHA_begin(module, a))
MSDA_call(t, a) == module.kind = "MSDA" /\ Forward(t, MSDA_begin(module, a))
PE_call(t, x) == module.kind = "PE" /\ Forward(t, PE_begin(module, x))

\* constructor calls and forward calls, one at a time, of MLP,
\* MultiHeadAttention and PositionEmbedding
NextLayers ==
  \/ \E i \in MLPDims, h \in MLPDims, o \in MLPDims, n \in 1..MaxLayers, seed \in Seeds :
       NewMLP(i, h, o, n, seed)
  \/ \E d \in MHADims, h \in 1..MaxHeads, seed \in Seeds : NewMHA(d, h, seed)
  \/ \E d \in PEDims, n \in 1..MaxRows : NewPE(d, n)
  \/ calls[1] = Idle /\ module.kind = "MLP" /\ \E x \in MLPInputs(module) : MLP_call(1, x)
  \/ calls[1] = Idle /\ module.kind = "MHA" /\ \E a \in MHAArgs(module) : MHA_call(1, a)
  \/ calls[1] = Idle /\ module.kind = "PE" /\ \E x \in PEInputs(module) : PE_call(1, x)
  \/ Collect(1)

\* constructor calls, training and forward calls, one at a time, of
\* MSDeformableAttention
NextMSDA ==
  \/ \E cf \in MSDAConfigs : NewMSDA(cf[1], cf[2], cf[3], cf[4], 0)
  \/ \E seed \in Seeds : Train(seed)
  \/ calls[1] = Idle /\ module.kind = "MSDA" /\ \E a \in MSDAArgs(module) : MSDA_call(1, a)
  \/ Collect(1)

\* the sequential program
Next ==
  \/ \E i \in MLPDims, h \in MLPDims, o \in MLPDims, n \in 1..MaxLayers, seed \in Seeds :
       NewMLP(i, h, o, n, seed)
  \/ \E d \in MHADims, h \in 1..MaxHeads, seed \in Seeds : NewMHA(d, h, seed)
  \/ \E d \in PEDims, n \in 1..MaxRows : NewPE(d, n)
  \/ \E cf \in MSDAConfigs : NewMSDA(cf[1], cf[2], cf[3], cf[4], 0)
  \/ \E seed \in Seeds : Train(seed)
  \/ calls[1] = Idle /\ module.kind = "MLP" /\ \E x \in MLPInputs(module) : MLP_call(1, x)
  \/ calls[1] = Idle /\ module.kind = "MHA" /\ \E a \in MHAArgs(module) : MHA_call(1, a)
  \/ calls[1] = Idle /\ module.kind = "MSDA" /\ \E a \in MSDAArgs(module) : MSDA_call(1, a)
  \/ calls[1] = Idle /\ module.kind = "PE" /\ \E x \in PEInputs(module) : PE_call(1, x)
  \/ Collect(1)

Spec == Init /\ [][Next]_vars
SpecLayers == Init /\ [][NextLayers]_vars
SpecMSDA == Init /\ [][NextMSDA]_vars

(***************************************************************************)
(* Concurrent forward calls on one instance                                *)
(***************************************************************************)
\* the call of class `kind` as it stands on entry with the arguments `args`
Entry(m, kind, args) ==
  CASE kind = "MLP" -> MLP_begin(m, args.x)
    [] kind = "MHA" -> MHA_begin(m, args)
    [] kind = "MSDA" -> MSDA_begin(m, args)
    [] kind = "PE" -> PE_begin(m, args.x)

\* the arguments the concurrent calls on the instance m are made with
ConcArgs(m) ==
  CASE m.kind = "MLP" ->
         {[x |-> IntTensor(seed, <<1, m.layers[1].weight.shape[2]>>)] : seed \in Seeds}
    [] m.kind = "MHA" ->
         {MHA_args(m, 1, MaxRows, MaxRows - seed, seed, FALSE) : seed \in Seeds}
    [] m.kind = "MSDA" ->
         {MSDA_args(m, 1, 1, [l \in 1..m.n_levels |-> <<1, 2>>],
                    IF seed = 0 THEN 3 ELSE 2, seed, 0, FALSE) : seed \in Seeds}
    [] m.kind = "PE" ->
         {[x |-> IntTensor(seed, <<1, 1, m.d_model>>)] : seed \in Seeds}

\* thread t enters forward on the shared instance
Enter(t, args) ==
  /\ module # NoModule
  /\ calls[t] = Idle
  /\ calls' = [calls EXCEPT ![t] = Entry(module, module.kind, args)]
  /\ UNCHANGED <<module, ctor>>

\* a step that also assigns to the instance: an MSDeformableAttention's
\* parameters are overwritten while the call runs
StepCallUpdating(t) ==
  /\ InFlight(calls[t])
  /\ calls' = [calls EXCEPT ![t] = Step(module, calls[t])]
  /\ module' = IF module.kind = "MSDA"
               THEN [module EXCEPT !.params = MSDA_trained(module, 1)]
               ELSE module
  /\ UNCHANGED ctor

\* thread t runs the next step of its call, reading the instance as it is
\* now; no statement of any forward assigns to an attribute of self
StepCall(t) ==
  /\ InFlight(calls[t])
  /\ calls' = [calls EXCEPT ![t] = Step(module, calls[t])]
  /\ UNCHANGED <<module, ctor>>

\* one instance of a class, and forward calls of several threads on it whose
\* steps interleave
NextConc ==
  \/ \E n \in 1..MaxLayers : NewMLP(2, 2, 1, n, 0)
  \/ \E h \in 1..MaxHeads : NewMHA(2, h, 0)
  \/ \E nl \in 1..MaxLevels : NewMSDA(2, 2, nl, 1, 0)
  \/ NewPE(2, MaxRows)
  \/ \E t \in Threads : module # NoModule /\ \E a \in ConcArgs(module) : Enter(t, a)
  \/ \E t \in Threads : StepCall(t)
  \/ \E t \in Threads : Collect(t)

SpecConc == Init /\ [][NextConc]_vars

(***************************************************************************)
(* Properties: MLP and MultiHeadAttention, and the constructors            *)
(***************************************************************************)
\* the forward calls of class `kind` that have returned or raised
Ended(kind) ==
  {t \in Threads : calls[t] # Idle /\ calls[t].kind = kind /\ Finished(calls[t])}

\* C4: for a query (batch, S_q, d_model) and a key and value (batch, S_k,
\* d_model), S_k equal to S_q or not, MultiHeadAttention.forward returns a
\* tensor of the query's shape
C4_OutputHasQueryShape ==
  \A t \in Ended("MHA") :
    /\ calls[t].pc = "returned"
    /\ calls[t].out.shape = calls[t].args.query.shape

\* C5: constructing MultiHeadAttention or MSDeformableAttention with a head
\* count that does not divide d_model ends in an error and yields no
\* instance; with one that divides it construction succeeds and
\* head_dim * heads = d_model
C5_HeadsMustDivide ==
  ctor.cls \in {"MHA", "MSDA"} =>
    LET d == ctor.args[1]
        heads == ctor.args[2]
    IN  IF d % heads # 0
        THEN /\ ctor.outcome \in {"AssertionError", "ValueError"}
             /\ module = NoModule
        ELSE /\ ctor.outcome = "ok"
             /\ module.kind = ctor.cls
             /\ module.d_model = d
             /\ module.head_dim * heads = d

C5_Witness ==
  /\ ctor.cls = "MHA"
  /\ ctor.args[1] % ctor.args[2] # 0
  /\ ctor.outcome = "AssertionError"
  /\ module = NoModule

\* the sub-layers i, i + 1, ... applied in order to x, with a ReLU after each
\* but the last
RECURSIVE AffineChain(_, _, _)
AffineChain(layers, x, i) ==
  LET y == Linear(x, layers[i].weight, layers[i].bias)
  IN  IF i = Len(layers) THEN y ELSE AffineChain(layers, Relu(y), i + 1)

\* C7: an MLP built with layer count L has exactly L affine sub-layers of
\* sizes input->hidden, hidden->hidden, ..., hidden->output (input->output
\* when L = 1), and forward applies them in order with a ReLU after each but
\* the last; with L = 1 the output is the one affine transform of the input
C7_MLPStructure ==
  /\ (ctor.cls = "MLP" /\ module # NoModule) =>
       LET L == ctor.args[4]
       IN  /\ Len(module.layers) = L
           /\ \A i \in 1..L :
                LET n == IF i = 1 THEN ctor.args[1] ELSE ctor.args[2]
                    k == IF i = L THEN ctor.args[3] ELSE ctor.args[2]
                IN  /\ module.layers[i].weight.shape = <<k, n>>
                    /\ module.layers[i].bias.shape = <<k>>
  /\ \A t \in Ended("MLP") :
       LET c == calls[t]
           layers == c.self0.layers
       IN  /\ c.pc = "returned"
           /\ c.out = AffineChain(layers, c.args.x, 1)
           /\ Len(layers) = 1 =>
                c.out = Linear(c.args.x, layers[1].weight, layers[1].bias)

\* a call on an MLP of one layer has returned an output with a negative
\* element, which a ReLU would have changed
C7_Witness ==
  \E t \in Ended("MLP") :
    /\ Len(calls[t].self0.layers) = 1
    /\ calls[t].pc = "returned"
    /\ \E k \in DOMAIN calls[t].out.data : QLt(calls[t].out.data[k], QZero)

(***************************************************************************)
(* Properties: MSDeformableAttention                                       *)
(***************************************************************************)
\* the calls of MSDeformableAttention.forward that have run the core function
Aggregated ==
  {t \in Threads : /\ calls[t] # Idle
                   /\ calls[t].kind = "MSDA"
                   /\ "output" \in DOMAIN calls[t].loc}

\* the calls of MSDeformableAttention.forward that have computed the
\* sampling locations
Located ==
  {t \in Threads : /\ calls[t] # Idle
                   /\ calls[t].kind = "MSDA"
                   /\ "sampling_locations" \in DOMAIN calls[t].loc}

\* the grid coordinates 2 * location - 1 of the call c, as the core function
\* computes them: [bs, len_q, n_heads, n_levels, n_points, 2]
SamplingGrids(c) == Shift(Scale(c.loc.sampling_locations, QI(2)), QI(-1))

\* the values the call c sampled at level l, as the core function's loop
\* computes them: [bs * n_heads, head_dim, len_q, n_points]
Sampled(c, l) ==
  SamplingValue(ValueList(c.loc.value, c.args.value_spatial_shapes,
                          c.args.value_level_start_index),
                c.args.value_spatial_shapes, SamplingGrids(c), l)

\* the indices <<batch element, query, head, level, point>> of a call
PointsOf(c) ==
  (0..(c.args.query.shape[1] - 1)) \X (0..(c.args.query.shape[2] - 1))
    \X (0..(c.self0.n_heads - 1)) \X (0..(c.self0.n_levels - 1))
    \X (0..(c.self0.n_points - 1))

\* C1: in the aggregation the vector sampled at (level l, point p) is
\* multiplied by the attention weight of the same (level l, point p) before
\* the sum over all (level, point) pairs, for every batch element, query and
\* head
C1_WeightPairedWithItsSample ==
  \A t \in Aggregated :
    LET c == calls[t]
        m == c.self0
        S == Eager([l \in 1..m.n_levels |-> Sampled(c, l - 1)])
    IN  \A b \in 0..(c.args.query.shape[1] - 1), q \in 0..(c.args.query.shape[2] - 1),
           hh \in 0..(m.n_heads - 1), ch \in 0..(m.head_dim - 1) :
          At(c.loc.output, <<b, q, hh * m.head_dim + ch>>)
            = QSum([j \in 1..(m.n_levels * m.n_points) |->
                      LET l == (j - 1) \div m.n_points
                          p == (j - 1) % m.n_points
                      IN  QMul(At(S[l + 1], <<b * m.n_heads + hh, ch, q, p>>),
                               At(c.loc.attention_weights, <<b, q, hh, l, p>>))])

\* a grid coordinate outside [-1, 1]
Outside(g) == QLt(g, QI(-1)) \/ QLt(QI(1), g)

\* a grid coordinate at least one pixel (2 / size in grid units) beyond the
\* centre of the border pixel, which lies 1 / size inside the edge
FarOutside(g, size) ==
  QLe(g, QSub(QI(-1), Q(1, size))) \/ QLe(QAdd(QI(1), Q(1, size)), g)

\* whether the point pt = <<b, q, head, level, point>> of the call c
\* contributes nothing: its sampled vector is zero in every channel
ZeroSample(c, S, pt) ==
  \A ch \in 0..(c.self0.head_dim - 1) :
    At(S[pt[4] + 1], <<pt[1] * c.self0.n_heads + pt[3], ch, pt[2], pt[5]>>) = QZero

\* C2 as stated: every sampling point whose grid coordinate lies outside
\* [-1, 1] in x or in y contributes exactly zero
C2_OutsideIsZero ==
  \A t \in Aggregated :
    LET c == calls[t]
        g == SamplingGrids(c)
        S == Eager([l \in 1..c.self0.n_levels |-> Sampled(c, l - 1)])
    IN  \A pt \in PointsOf(c) :
          (Outside(At(g, pt \o <<0>>)) \/ Outside(At(g, pt \o <<1>>)))
            => ZeroSample(c, S, pt)

\* C2: every sampling point whose grid coordinate lies at or beyond
\* -1 - 1/W or 1 + 1/W in x, or -1 - 1/H or 1 + 1/H in y, for the level's
\* size H x W, contributes exactly zero
C2_FarOutsideIsZero ==
  \A t \in Aggregated :
    LET c == calls[t]
        g == SamplingGrids(c)
        S == Eager([l \in 1..c.self0.n_levels |-> Sampled(c, l - 1)])
    IN  \A pt \in PointsOf(c) :
          LET H == c.args.value_spatial_shapes[pt[4] + 1][1]
              W == c.args.value_spatial_shapes[pt[4] + 1][2]
          IN  (FarOutside(At(g, pt \o <<0>>), W) \/ FarOutside(At(g, pt \o <<1>>), H))
                => ZeroSample(c, S, pt)

\* a call sampled far outside a level none of whose projected values is zero
C2_Witness ==
  \E t \in Aggregated :
    LET c == calls[t]
        g == SamplingGrids(c)
    IN  /\ \A k \in DOMAIN c.loc.value.data : c.loc.value.data[k] # QZero
        /\ \E pt \in PointsOf(c) :
             FarOutside(At(g, pt \o <<0>>), c.args.value_spatial_shapes[pt[4] + 1][2])

\* the calls that have returned from an instance with d_model = 8, two
\* heads, one level and one point, made with batch 1, one query, no mask and
\* a 2 x 2 value grid whose four tokens hold the same vector
ConstantGridCalls ==
  {t \in Ended("MSDA") :
     LET c == calls[t]
     IN  /\ c.pc = "returned"
         /\ c.self0.d_model = 8 /\ c.self0.n_heads = 2
         /\ c.self0.n_levels = 1 /\ c.self0.n_points = 1
         /\ c.args.query.shape = <<1, 1, 8>>
         /\ c.args.value_spatial_shapes = <<(<<2, 2>>)>>
         /\ c.args.value_mask = NoTensor
         /\ \A k \in DOMAIN c.args.value.data :
              c.args.value.data[k] = c.args.value.data[((k - 1) % 8) + 1]}

\* the vector v every token of the call's value holds, as a [1, 1, 8] tensor
TokenVector(c) == T(<<1, 1, 8>>, SubSeq(c.args.value.data, 1, 8))

\* whether every sampling location of the call lies in [1/4, 3/4] x
\* [1/4, 3/4], where the four pixels around it are pixels of the 2 x 2 grid
SamplesInside(c) ==
  \A k \in DOMAIN c.loc.sampling_locations.data :
    /\ QLe(Q(1, 4), c.loc.sampling_locations.data[k])
    /\ QLe(c.loc.sampling_locations.data[k], Q(3, 4))

\* C3 as stated: on a 2 x 2 grid of one constant vector v the output is
\* output_proj(v), for every reference point and every sampling offset
C3_ConstantGridGivesProjection ==
  \A t \in ConstantGridCalls :
    LET c == calls[t]
        p == c.self0.params.output_proj
    IN  c.out = Linear(TokenVector(c), p.weight, p.bias)

\* C3: on a 2 x 2 grid of one constant vector v the output is
\* output_proj(value_proj(v)) whenever every sampling location lies in
\* [1/4, 3/4] x [1/4, 3/4]
C3_ConstantGridInside ==
  \A t \in ConstantGridCalls :
    LET c == calls[t]
        p == c.self0.params
    IN  SamplesInside(c) =>
          c.out = Linear(Linear(TokenVector(c), p.value_proj.weight, p.value_proj.bias),
                         p.output_proj.weight, p.output_proj.bias)

\* such a call with every sample inside, a value_proj that changes v, and an
\* output that is not zero
C3_Witness ==
  \E t \in ConstantGridCalls :
    LET c == calls[t]
        p == c.self0.params
    IN  /\ SamplesInside(c)
        /\ Linear(TokenVector(c), p.value_proj.weight, p.value_proj.bias) # TokenVector(c)
        /\ \E k \in DOMAIN c.out.data : c.out.data[k] # QZero

\* C6: forward with reference_points whose last dimension is neither 2 nor 4
\* raises an error, returns no output and leaves every parameter as it was;
\* with a last dimension of 2 or 4 that error is not raised
C6_RefDimChecked ==
  \A t \in Ended("MSDA") :
    LET c == calls[t]
        R == c.args.reference_points.shape[4]
    IN  IF R \notin {2, 4}
        THEN /\ c.pc = "raised"
             /\ c.exc = "ValueError"
             /\ c.out = NoTensor
             /\ module.params = c.self0.params
        ELSE c.exc # "ValueError"

\* a call with reference points of last dimension 3 has raised
C6_Witness ==
  \E t \in Ended("MSDA") :
    /\ calls[t].args.reference_points.shape[4] = 3
    /\ calls[t].pc = "raised"

\* C9: with reference points of last dimension 2 the sampling location of
\* every query, head, level l and point is (ref_x + offset_x / W_l,
\* ref_y + offset_y / H_l) for the shape (H_l, W_l) of that level, and so the
\* reference point itself when the offset is zero
C9_OffsetOverWidthHeight ==
  \A t \in Located :
    LET c == calls[t]
        ref == c.args.reference_points
        off == c.loc.sampling_offsets
        at == c.loc.sampling_locations
    IN  ref.shape[4] = 2 =>
          \A pt \in PointsOf(c) :
            LET H == c.args.value_spatial_shapes[pt[4] + 1][1]
                W == c.args.value_spatial_shapes[pt[4] + 1][2]
                rx == At(ref, <<pt[1], pt[2], pt[4], 0>>)
                ry == At(ref, <<pt[1], pt[2], pt[4], 1>>)
                ox == At(off, pt \o <<0>>)
                oy == At(off, pt \o <<1>>)
            IN  /\ At(at, pt \o <<0>>) = QAdd(rx, QDiv(ox, QI(W)))
                /\ At(at, pt \o <<1>>) = QAdd(ry, QDiv(oy, QI(H)))
                /\ (ox = QZero /\ oy = QZero) =>
                     (At(at, pt \o <<0>>) = rx /\ At(at, pt \o <<1>>) = ry)

\* a call on a level that is not square, with a point whose offset in x is
\* not zero, so that dividing it by the height would give another location
C9_Witness ==
  \E t \in Located :
    LET c == calls[t]
        off == c.loc.sampling_offsets
    IN  /\ c.args.reference_points.shape[4] = 2
        /\ \E pt \in PointsOf(c) :
             /\ c.args.value_spatial_shapes[pt[4] + 1][1]
                  # c.args.value_spatial_shapes[pt[4] + 1][2]
             /\ At(off, pt \o <<0>>) # QZero

\* C10: the result does not depend on value_level_start_index: the tokens of
\* level i are those at positions sum(Hj * Wj for j < i) and on, counted from
\* value_spatial_shapes alone, and a call whose value_level_start_index is
\* not those sums ends as the call with those sums does, with the same output
C10_StartIndexIgnored ==
  /\ \A t \in Aggregated :
       LET c == calls[t]
           shapes == c.args.value_spatial_shapes
           vl == ValueList(c.loc.value, shapes, c.args.value_level_start_index)
       IN  \A i \in 1..Len(shapes) :
             /\ vl[i].shape[2] = LevelSizes(shapes)[i]
             /\ \A b \in 0..(vl[i].shape[1] - 1), j \in 0..(vl[i].shape[2] - 1),
                   hh \in 0..(vl[i].shape[3] - 1), ch \in 0..(vl[i].shape[4] - 1) :
                  At(vl[i], <<b, j, hh, ch>>)
                    = At(c.loc.value, <<b, SplitStart(LevelSizes(shapes), i) + j, hh, ch>>)
  /\ \A t \in Ended("MSDA") :
       LET c == calls[t]
           sums == LevelStartIndex(c.args.value_spatial_shapes, 0)
           other == Run(c.self0, MSDA_begin(c.self0,
                          [c.args EXCEPT !.value_level_start_index = sums]))
       IN  c.args.value_level_start_index # sums =>
             (c.pc = other.pc /\ c.out = other.out /\ c.exc = other.exc)

\* a call on two levels whose value_level_start_index is not the sums of the
\* level sizes has returned
C10_Witness ==
  \E t \in Ended("MSDA") :
    LET c == calls[t]
    IN  /\ Len(c.args.value_spatial_shapes) = 2
        /\ c.args.value_level_start_index
             # LevelStartIndex(c.args.value_spatial_shapes, 0)
        /\ c.pc = "returned"
        /\ \E k \in DOMAIN c.out.data : c.out.data[k] # QZero

(***************************************************************************)
(* Properties: concurrent forward calls                                    *)
(***************************************************************************)
\* C8: a forward call of any of the four classes writes nothing of the
\* instance: however the steps of concurrent calls on one instance
\* interleave, the instance stays as it was when each call began, and each
\* call ends as it does when run alone, with the same output
C8_NoInterference ==
  \A t \in Threads :
    calls[t] # Idle =>
      LET c == calls[t]
          alone == Run(c.self0, Entry(c.self0, c.kind, c.args))
      IN  /\ module = c.self0
          /\ Finished(c) =>
               (c.pc = alone.pc /\ c.out = alone.out /\ c.exc = alone.exc)

\* a call has returned while another call on the same instance, made with
\* other arguments, is part of the way through
C8_Witness ==
  \E t \in Threads, u \in Threads :
    /\ t # u
    /\ calls[t] # Idle /\ calls[t].pc = "returned"
    /\ InFlight(calls[u])
    /\ calls[u].args # calls[t].args
    /\ calls[u].loc # Entry(module, module.kind, calls[u].args).loc

=============================================================================
